---- MODULE Spec2Model ----
(***************************************************************************)
(* Model of the training-loop machinery of XAE/XAE/model.py: the train()   *)
(* method that every model class re-implements (epoch loop, optimizer      *)
(* alternation, penalty composition, schedulers, metric lists, model save  *)
(* and checkpoint write / resume, TensorBoard writer), of the config      *)
(* fallbacks of the constructors, of the loss computations and loaders of  *)
(* the training step, of pretrain_encoder()'s requires_grad flags, and of  *)
(* the MNIST / rmMNIST datasets of XAE/XAE/dataset.py.                     *)
(***************************************************************************)
EXTENDS Integers, Sequences, FiniteSets, TLC

\* ------------------------------------------------------------------ bounds
MaxEpoch == 2
TrainBatches == 2
TestBatches == 1
MaxObj == 2
MaxBatch == 3
MaxLoss == 2
MaxRows == 3
PortionDen == 2

\* ----------------------------------------------------------------- classes
\* the thirteen classes of model.py that define train()
SingleOpt ==
  {"classifier_abstract", "VAE_abstract", "CVAE_abstract",
   "SSWAE_MMD_abstract", "SSWAE_MMD_dev"}

TwoOpt ==
  {"SSWAE_HSIC_dev", "SSWAE_HSIC_dev2", "SSWAE_HSIC_dev2_2", "SSWAE_HSIC_dev3",
   "SSWAE_GAN_abstract", "SSWAE_GAN_dev", "SSWAE_HSIC_abstract",
   "SSWAE_adv_abstract"}

Classes == SingleOpt \cup TwoOpt

\* classes whose training objective adds the penalties without testing lamb
UngatedPenalty == {"SSWAE_HSIC_dev2", "SSWAE_HSIC_dev2_2", "SSWAE_HSIC_dev3"}

\* ----------------------------------------------------------------- modules
\* sub-networks of SSWAE_HSIC_MNIST and the three lists the optimizers use
Modules == {"enc", "embed_data", "embed_condition", "f1", "dec", "disc"}
encoder_trainable == {"enc", "embed_data", "embed_condition"}
decoder_trainable == {"dec"}
discriminator_trainable == {"disc"}

\* parameters handed to optim.Adam for the main and the adversarial optimizer
MainParamsAll == Modules

MainParams == encoder_trainable \cup decoder_trainable

AdvParams == discriminator_trainable

\* ------------------------------------------------------------- objectives
\* terms of the objective on which obj.backward() is called in a training
\* iteration, per class, as a function of lamb
PenaltyNames == {"penalty", "gan", "mmd", "hsic"}

PenaltyOf(c) ==
  CASE c = "classifier_abstract" -> {}
    [] c \in {"SSWAE_HSIC_dev", "SSWAE_HSIC_dev2", "SSWAE_HSIC_dev2_2",
              "SSWAE_HSIC_dev3", "SSWAE_HSIC_abstract"} ->
         {"gan", "mmd", "hsic"}
    [] OTHER -> {"penalty"}

MainLossOf(c) ==
  CASE c \in {"classifier_abstract", "VAE_abstract", "CVAE_abstract",
              "SSWAE_HSIC_dev", "SSWAE_HSIC_dev2", "SSWAE_HSIC_dev2_2",
              "SSWAE_HSIC_dev3"} -> {"recon"}
    [] OTHER -> {"recon", "class"}

ObjTermsGated(c, lamb) ==
  MainLossOf(c)
    \cup (IF lamb > 0 THEN PenaltyOf(c) ELSE {})
    \cup (IF c = "SSWAE_adv_abstract" THEN {"class_adv"} ELSE {})

ObjTerms(c, lamb) ==
  IF c \in UngatedPenalty
    THEN MainLossOf(c) \cup PenaltyOf(c)
    ELSE ObjTermsGated(c, lamb)

\* modules whose .grad is written by obj_adv.backward(): the discriminator
\* and, because fake_latent is not detached, the encoder
AdvReach(c) == discriminator_trainable \cup encoder_trainable

\* modules whose .grad is written by obj.backward()
MainReach(c, lamb) ==
  encoder_trainable \cup decoder_trainable
    \cup (IF c \in TwoOpt /\ ObjTerms(c, lamb) \cap {"gan", "penalty"} # {}
            THEN discriminator_trainable ELSE {})
    \cup (IF c \in {"SSWAE_HSIC_dev2", "SSWAE_HSIC_dev3"} THEN {"f1"} ELSE {})

\* ---------------------------------------------------------------- metrics
MetricsOf(c) ==
  CASE c = "classifier_abstract" -> {"main"}
    [] c \in {"SSWAE_HSIC_dev", "SSWAE_HSIC_dev2", "SSWAE_HSIC_dev2_2",
              "SSWAE_HSIC_dev3"} -> {"main", "penalty", "penalty2", "penalty3"}
    [] c \in {"VAE_abstract", "CVAE_abstract"} -> {"main", "penalty"}
    [] c = "SSWAE_HSIC_abstract" ->
         {"main", "main2", "penalty", "penalty2", "penalty3"}
    [] c = "SSWAE_adv_abstract" -> {"main", "main2", "penalty", "penalty2"}
    [] OTHER -> {"main", "main2", "penalty"}

\* accumulators that receive a value in an iteration
Appended(c, lamb) ==
  {m \in MetricsOf(c) :
     \/ m \in {"main", "main2"}
     \/ lamb > 0
     \/ c = "SSWAE_adv_abstract" /\ m = "penalty2"}

\* inc_avg(): a fresh running average, here the number of values it holds
inc_avg(c) == [m \in MetricsOf(c) |-> 0]

AccAppend(acc, c, lamb) ==
  [m \in DOMAIN acc |-> IF m \in Appended(c, lamb) THEN acc[m] + 1 ELSE acc[m]]

\* (a running average that is not re-created keeps the earlier epochs' values)
ListAppendStale(lst, acc, e) ==
  [m \in DOMAIN lst |->
     Append(lst[m], [epoch |-> e, n |-> acc[m] * (Len(lst[m]) + 1)])]

ListAppend(lst, acc, e) ==
  [m \in DOMAIN lst |-> Append(lst[m], [epoch |-> e, n |-> acc[m]])]

EmptyLists(c) == [m \in MetricsOf(c) |-> << >>]

\* ------------------------------------------------------------- checkpoint
\* keys of the dictionary written by torch.save at the end of an epoch
WriteKeysNoSched(c, lrs) ==
  {"epoch", "model_state_dict"}
    \cup (IF c \in TwoOpt
            THEN {"optimizer_main_state_dict", "optimizer_adv_state_dict"}
            ELSE {"optimizer_state_dict"})
    \cup (IF lrs /\ c \in TwoOpt THEN {"scheduler_main"} ELSE {})

WriteKeys(c, lrs) ==
  {"epoch", "model_state_dict"}
    \cup (IF c \in TwoOpt
            THEN {"optimizer_main_state_dict", "optimizer_adv_state_dict"}
            ELSE {"optimizer_state_dict"})
    \cup (IF lrs
            THEN (IF c \in TwoOpt THEN {"scheduler_main", "scheduler_adv"}
                                  ELSE {"scheduler"})
            ELSE {})

\* keys read by the resume branch of train()
ReadKeys(c, lrs) ==
  {"epoch", "model_state_dict"}
    \cup (IF c \in TwoOpt
            THEN {"optimizer_main_state_dict", "optimizer_adv_state_dict"}
            ELSE {"optimizer_state_dict"})
    \cup (IF lrs
            THEN (IF c \in TwoOpt THEN {"scheduler_main", "scheduler_adv"}
                                  ELSE {"scheduler"})
            ELSE {})


\* ----------------------------------------------------------- construction
\* A config value is the string configparser returns, kept as its characters.
Digits == << "0", "1", "2", "3", "4", "5", "6", "7", "8", "9" >>
IsDigit(ch) == \E d \in DOMAIN Digits : Digits[d] = ch
DigitVal(ch) == (CHOOSE d \in DOMAIN Digits : Digits[d] = ch) - 1

RECURSIVE Decimal(_)
Decimal(ds) ==
  IF ds = << >> THEN 0
  ELSE Decimal(SubSeq(ds, 1, Len(ds) - 1)) * 10 + DigitVal(ds[Len(ds)])

AllDigits(s) == \A j \in DOMAIN s : IsDigit(s[j])

\* the outcome of an expression: a value, or the exception it raises
Ok(v) == [ok |-> TRUE, val |-> v]
Raise(e) == [ok |-> FALSE, exc |-> e]

\* str.replace(" ", "")
RECURSIVE replace(_)
replace(s) ==
  IF s = << >> THEN << >>
  ELSE IF Head(s) = " " THEN replace(Tail(s))
  ELSE << Head(s) >> \o replace(Tail(s))

\* str.split(","): the pieces between commas, at least one, possibly empty
RECURSIVE split(_)
split(s) ==
  IF s = << >> THEN << << >> >>
  ELSE LET r == split(Tail(s))
       IN IF Head(s) = "," THEN << << >> >> \o r
          ELSE << << Head(s) >> \o Head(r) >> \o Tail(r)

\* int(s) on an unsigned decimal literal; anything else is a ValueError
int(s) ==
  IF s # << >> /\ AllDigits(s) THEN Ok(Decimal(s)) ELSE Raise("ValueError")

RECURSIVE StripZeros(_)
StripZeros(ds) ==
  IF ds # << >> /\ ds[Len(ds)] = "0"
    THEN StripZeros(SubSeq(ds, 1, Len(ds) - 1))
    ELSE ds

\* float(s) on a literal digits[.digits]; the value num / 10^frac in lowest
\* decimal form, so that "1", "1." and "1.0" are the same number
float(s) ==
  LET dots == {j \in DOMAIN s : s[j] = "."}
      d    == IF dots = {} THEN Len(s) + 1 ELSE CHOOSE j \in dots : TRUE
      ip   == SubSeq(s, 1, d - 1)
      fp   == StripZeros(SubSeq(s, d + 1, Len(s)))
  IN IF /\ Cardinality(dots) <= 1
        /\ AllDigits(ip)
        /\ AllDigits(SubSeq(s, d + 1, Len(s)))
        /\ Len(s) > Cardinality(dots)
       THEN Ok([num |-> Decimal(ip \o fp), frac |-> Len(fp)])
       ELSE Raise("ValueError")

\* [int(i) for i in s.replace(" ", "").split(",")]
RECURSIVE IntEach(_)
IntEach(pieces) ==
  IF pieces = << >> THEN Ok(<< >>)
  ELSE LET h == int(Head(pieces))
           t == IntEach(Tail(pieces))
       IN IF ~h.ok THEN h
          ELSE IF ~t.ok THEN t
          ELSE Ok(<< h.val >> \o t.val)

IntList(s) == IntEach(split(replace(s)))

\* cfg["train_info"][key]
Lookup(c, key) == IF key \in DOMAIN c THEN Ok(c[key]) ELSE Raise("KeyError")

\* which exceptions an except clause handles
CatchesNothing(clause, exc) == FALSE

Catches(clause, exc) ==
  \/ clause = "except"
  \/ clause = "except KeyError" /\ exc = "KeyError"

One == [num |-> 1, frac |-> 0]

\* one assignment of a constructor: self.attr = conv(cfg["train_info"][key]),
\* inside try/clause with the fallback value, or unguarded (clause "none")
Stmt(attr, key, conv, clause, default) ==
  [attr |-> attr, key |-> key, conv |-> conv, clause |-> clause,
   default |-> default]

Required(attr, key, conv) == Stmt(attr, key, conv, "none", << >>)

labeled_class == Required("labeled_class", "labeled_class", "intlist")
unlabeled_class == Required("unlabeled_class", "unlabeled_class", "intlist")
test_class == Required("test_class", "test_class", "intlist")

\* try: w = float(...); self.cce = CrossEntropyLoss(weight=[1, .., 1, w])
\* except: self.cce = CrossEntropyLoss()
cce == Stmt("cce", "classification_weight", "cce", "except", << >>)

classifier_abstract_init ==
  << labeled_class,
     Stmt("portion", "portion", "float", "except KeyError", One) >>

SSWAE_HSIC_dev2_init ==
  << Required("lamb_mmd", "lambda_mmd", "float"),
     Required("lamb_hsic", "lambda_hsic", "float"),
     labeled_class,
     Stmt("test_class", "test_class", "intlist", "except", << >>),
     Required("portion", "portion", "float"),
     Required("batch_size", "batch_size", "int") >>

SSWAE_HSIC_dev2_2_init ==
  SSWAE_HSIC_dev2_init \o
  << Stmt("unlabeled_class", "unlabeled_class", "intlist", "except", << >>),
     Stmt("unk", "unk", "unk", "except", TRUE) >>

SSWAE_HSIC_dev3_init == SSWAE_HSIC_dev2_init

SSWAE_MMD_abstract_init ==
  << Required("yz_dim", "yz_dim", "int"),
     Required("lamb2", "lambda2", "float"),
     labeled_class, unlabeled_class, test_class,
     Required("batch_size1", "batch_size1", "int"),
     Required("batch_size2", "batch_size2", "int"),
     Required("batch_size", "", "max"),
     cce >>

SSWAE_GAN_abstract_init ==
  << Required("yz_dim", "yz_dim", "int"),
     Required("lamb2", "lambda2", "float"),
     labeled_class, unlabeled_class, test_class,
     Required("batch_size1", "batch_size1", "int"),
     Required("batch_size2", "batch_size2", "int"),
     Required("batch_size", "", "max"),
     cce >>

SSWAE_MMD_dev_init ==
  << Required("yz_dim", "yz_dim", "int"),
     Required("lamb2", "lambda2", "float"),
     labeled_class, unlabeled_class, test_class,
     Required("batch_size2", "batch_size2", "int"),
     Required("batch_size", "", "copy"),
     cce >>

SSWAE_GAN_dev_init ==
  << Required("yz_dim", "yz_dim", "int"),
     Required("lamb2", "lambda2", "float"),
     labeled_class, unlabeled_class, test_class,
     Required("batch_size2", "batch_size2", "int"),
     Required("batch_size", "", "copy"),
     cce >>

SSWAE_adv_abstract_init ==
  << Required("yz_dim", "yz_dim", "int"),
     Required("lamb_class", "lambda_class", "float"),
     Required("lamb_adv", "lambda_adv", "float"),
     labeled_class, unlabeled_class, test_class,
     Required("batch_size", "batch_size", "int"),
     cce >>

\* the classes of model.py whose constructor has a try/except fallback
CtorClasses ==
  {"classifier_abstract", "SSWAE_HSIC_dev2", "SSWAE_HSIC_dev2_2",
   "SSWAE_HSIC_dev3", "SSWAE_MMD_abstract", "SSWAE_GAN_abstract",
   "SSWAE_MMD_dev", "SSWAE_GAN_dev", "SSWAE_adv_abstract"}

InitOf(c) ==
  CASE c = "classifier_abstract" -> classifier_abstract_init
    [] c = "SSWAE_HSIC_dev2" -> SSWAE_HSIC_dev2_init
    [] c = "SSWAE_HSIC_dev2_2" -> SSWAE_HSIC_dev2_2_init
    [] c = "SSWAE_HSIC_dev3" -> SSWAE_HSIC_dev3_init
    [] c = "SSWAE_MMD_abstract" -> SSWAE_MMD_abstract_init
    [] c = "SSWAE_GAN_abstract" -> SSWAE_GAN_abstract_init
    [] c = "SSWAE_MMD_dev" -> SSWAE_MMD_dev_init
    [] c = "SSWAE_GAN_dev" -> SSWAE_GAN_dev_init
    [] c = "SSWAE_adv_abstract" -> SSWAE_adv_abstract_init

KeysOf(c) == {InitOf(c)[j].key : j \in DOMAIN InitOf(c)} \ {""}

\* the right-hand side of an assignment, given the attributes set so far
Convert(conv, s) ==
  CASE conv = "intlist" -> IntList(s)
    [] conv = "int" -> int(s)
    [] conv = "float" -> float(s)
    [] conv = "unk" -> Ok(replace(s) = << "T", "r", "u", "e" >>)
    [] conv = "cce" -> LET w == float(s)
                       IN IF w.ok THEN Ok(<< w.val >>) ELSE w

Eval(stmt, c, obj) ==
  CASE stmt.conv = "max" ->
         Ok(IF obj["batch_size1"] >= obj["batch_size2"]
              THEN obj["batch_size1"] ELSE obj["batch_size2"])
    [] stmt.conv = "copy" -> Ok(obj["batch_size2"])
    [] OTHER -> LET r == Lookup(c, stmt.key)
                IN IF r.ok THEN Convert(stmt.conv, r.val) ELSE r

Guarded(stmt, c, obj) ==
  LET r == Eval(stmt, c, obj)
  IN IF ~r.ok /\ Catches(stmt.clause, r.exc) THEN Ok(stmt.default) ELSE r

\* the assignments in order; the first uncaught exception ends construction
RECURSIVE Run(_, _, _)
Run(stmts, c, obj) ==
  IF stmts = << >> THEN [attrs |-> obj, exc |-> "none"]
  ELSE LET r == Guarded(Head(stmts), c, obj)
       IN IF r.ok
            THEN Run(Tail(stmts), c, obj @@ (Head(stmts).attr :> r.val))
            ELSE [attrs |-> obj, exc |-> r.exc]

NoAttrs == [a \in {} |-> 0]

\* the config values tried for each key, well-formed ones first
ValuesOf(key) ==
  CASE key = "labeled_class" -> << << "0", ",", "1" >>, << "x" >> >>
    [] key = "unlabeled_class" -> << << "2", ",", " ", "3" >>, << "x" >> >>
    [] key = "test_class" -> << << "7", ",", " ", "8" >>, << "7", "," >> >>
    [] key = "portion" ->
         << << "0", ".", "5" >>, << "1" >>, << "a", "b", "c" >> >>
    [] key = "unk" ->
         << << "T", "r", "u", "e" >>, << "F", "a", "l", "s", "e" >>,
            << "T", "r", "u", "e", " " >> >>
    [] key = "classification_weight" ->
         << << "2", ".", "5" >>, << "a", "b", "c" >> >>
    [] key \in {"batch_size", "batch_size1"} -> << << "1", "6" >>, << "x" >> >>
    [] key = "batch_size2" -> << << "3", "2" >>, << "x" >> >>
    [] key = "yz_dim" -> << << "2" >>, << "x" >> >>
    [] OTHER -> << << "1", ".", "0" >>, << "a", "b", "c" >> >>

WellFormed(key) ==
  CASE key = "portion" -> {1, 2}
    [] key = "unk" -> {1, 2, 3}
    [] OTHER -> {1}

\* every config over the keys a constructor reads: each key absent (0) or
\* holding one of its values
CfgsOf(c) ==
  {[k \in {j \in KeysOf(c) : ix[j] # 0} |-> ValuesOf(k)[ix[k]]] :
     ix \in {f \in [KeysOf(c) -> 0 .. 3] :
               \A k \in KeysOf(c) : f[k] <= Len(ValuesOf(k))}}


\* ------------------------------------------------------------------ state
VARIABLES
  self,             \* attributes fixed by the config file
  best_obj,         \* self.best_obj = [epoch, objective]
  hist,             \* self.hist
  params,           \* self.state_dict(): update count of each module
  grads,            \* .grad of each module: which backward() calls wrote it
  optimizer,        \* step counts of the main / adversarial optimizer
  scheduler,        \* step counts of the main / adversarial scheduler
  pc,               \* position in train()
  resume,           \* argument of the running train()
  start_epoch,
  epoch,
  i,                \* index of the next training batch
  train_loss,       \* training accumulators of the epoch
  test_loss,        \* validation accumulators of the epoch
  lists,            \* the *_list locals: [train, test]
  save_path,        \* the model file
  save_state,       \* the checkpoint file
  error,            \* exception that ended train(), or "none"
  obj_terms,        \* terms of the objective last passed to backward()
  events,           \* what the current epoch has done so far, in order
  executed,         \* epochs the running train() has entered
  written,          \* epochs whose checkpoint write has completed
  written_at_start, \* value of written when the running train() began
  prev,             \* how the train() call before the running one ended
  sched_calls,      \* scheduler step() calls of the running train()
  cfg,              \* cfg["train_info"]: the keys present and their strings
  built,            \* the constructor call: its class, outcome, attributes
  saves,            \* self.save() calls of the running train()
  selection,        \* save_best comparisons of the running train()
  writer,           \* self.writer: its state and the accesses of train()
  batch,            \* arguments of one computation: sizes, mask, losses,
                    \* flags, the rows of a data file
  result            \* what the computation returned or recorded

vars ==
  << self, best_obj, hist, params, grads, optimizer, scheduler, pc, resume,
     start_epoch, epoch, i, train_loss, test_loss, lists, save_path,
     save_state, error, obj_terms, events, executed, written,
     written_at_start, prev, sched_calls, cfg, built, saves, selection,
     writer, batch, result >>

ObjValues == 1 .. MaxObj

\* a fresh process: the object as constructed, nothing trained
FreshParams == [m \in Modules |-> 0]
FreshGrads == [m \in Modules |-> {}]
FreshCounts == [main |-> 0, adv |-> 0]
FreshBest == << 0, MaxObj + 1 >>
NoModelFile == [exists |-> FALSE, params |-> FreshParams, epoch |-> 0]
NoCheckpoint ==
  [status |-> "none", keys |-> {}, epoch |-> 0,
   model_state_dict |-> FreshParams, optimizer |-> FreshCounts,
   scheduler |-> FreshCounts]

\* classes of model.py that define pretrain_encoder(); the other classes
\* take it from their base class
PretrainClasses == {"SSWAE_HSIC_dev", "VAE_abstract", "CVAE_abstract"}

Configs ==
  {s \in [cls : Classes, lamb : {0, 1}, validate_batch : BOOLEAN,
          save_best : BOOLEAN, save_state : BOOLEAN, lr_schedule : BOOLEAN,
          num_epoch : 0 .. MaxEpoch, encoder_pretrain : BOOLEAN,
          tensorboard_dir : {"", "tb"}] :
     s.encoder_pretrain => s.cls \in PretrainClasses}

NoSaves == [loop |-> 0, final |-> 0]

\* no save_best comparison made yet; start is self.best_obj when train()
\* begins
NoSelection == [start |-> FreshBest, seen |-> << >>]

\* self.writer does not exist in a new process
NoWriter == [state |-> "none", reads |-> 0, closes |-> 0, misused |-> FALSE]

\* if len(self.tensorboard_dir) > 0
HasTensorboardAlways(dir) == TRUE

HasTensorboard(dir) == Len(dir) > 0

\* self.writer = SummaryWriter(self.tensorboard_dir), under its condition
SummaryWriter(dir) ==
  IF HasTensorboard(dir) THEN [NoWriter EXCEPT !.state = "open"] ELSE NoWriter

\* self.writer.add_scalar(...) and the other calls that log, under their
\* condition; a writer that is not open cannot take the call
WriterLog(w, dir) ==
  IF HasTensorboard(dir)
  THEN [w EXCEPT !.reads = @ + 1, !.misused = @ \/ w.state # "open"]
  ELSE w

\* self.writer.close(), under its condition
WriterClose(w, dir) ==
  IF HasTensorboard(dir)
  THEN [state |-> "closed", reads |-> w.reads + 1, closes |-> w.closes + 1,
        misused |-> w.misused \/ w.state # "open"]
  ELSE w

\* the object before train() is first called
Untrained(s) ==
  /\ self = s
  /\ best_obj = FreshBest
  /\ hist = [train |-> EmptyLists(self.cls), test |-> EmptyLists(self.cls)]
  /\ params = FreshParams
  /\ grads = FreshGrads
  /\ optimizer = FreshCounts
  /\ scheduler = FreshCounts
  /\ pc = "idle"
  /\ resume = FALSE
  /\ start_epoch = 0
  /\ epoch = 0
  /\ i = 0
  /\ train_loss = inc_avg(self.cls)
  /\ test_loss = inc_avg(self.cls)
  /\ lists = [train |-> EmptyLists(self.cls), test |-> EmptyLists(self.cls)]
  /\ save_path = NoModelFile
  /\ save_state = NoCheckpoint
  /\ error = "none"
  /\ obj_terms = {}
  /\ events = << >>
  /\ executed = << >>
  /\ written = {}
  /\ written_at_start = {}
  /\ prev = "none"
  /\ sched_calls = FreshCounts
  /\ saves = NoSaves
  /\ selection = NoSelection
  /\ writer = NoWriter

NoConfig == [k \in {} |-> << >>]
NotBuilt == [cls |-> "none", state |-> "new", attrs |-> NoAttrs, exc |-> "none"]

\* no computation under way
NoBatch == [kind |-> "none"]
NoResult == [kind |-> "none"]

Init ==
  /\ \E s \in Configs : Untrained(s)
  /\ cfg = NoConfig
  /\ built = NotBuilt
  /\ batch = NoBatch
  /\ result = NoResult


\* -------------------------------------------------------------- gradients
\* net.zero_grad() for every net of a list
ZeroGradNone(g, nets) == g

ZeroGrad(g, nets) == [m \in Modules |-> IF m \in nets THEN {} ELSE g[m]]

\* backward() accumulates into .grad of every module the objective reaches
Backward(g, reach, tag) ==
  [m \in Modules |-> IF m \in reach THEN g[m] \cup {tag} ELSE g[m]]

\* what an earlier batch left in .grad is no longer of the current batch
Age(g) == [m \in Modules |-> IF g[m] = {} THEN {} ELSE {"old"}]

\* optimizer.step(): updates the parameters it was given that hold a gradient
Step(p, nets, g) ==
  [m \in Modules |-> IF m \in nets /\ g[m] # {} THEN p[m] + 1 ELSE p[m]]

\* ----------------------------------------------------------------- train()
\* everything of a new process but the networks
FreshRun ==
  /\ best_obj' = FreshBest
  /\ optimizer' = FreshCounts
  /\ scheduler' = FreshCounts
  /\ start_epoch' = 0
  /\ epoch' = 0
  /\ i' = 0
  /\ train_loss' = inc_avg(self.cls)
  /\ test_loss' = inc_avg(self.cls)
  /\ lists' = [train |-> EmptyLists(self.cls), test |-> EmptyLists(self.cls)]
  /\ hist' = [train |-> EmptyLists(self.cls), test |-> EmptyLists(self.cls)]
  /\ obj_terms' = {}
  /\ events' = << >>
  /\ executed' = << >>
  /\ sched_calls' = FreshCounts
  /\ saves' = NoSaves
  /\ selection' = NoSelection

Fresh ==
  /\ FreshRun
  /\ params' = FreshParams
  /\ grads' = FreshGrads

\* the modules pretrain_encoder() freezes (self.pretrain_freeze)
PretrainFreeze == {{}, {"embed_data"}}

\* one iteration of pretrain_encoder(): the iteration of train(), with
\* optimizers of its own and the frozen modules receiving no gradient
PretrainIter(pg, frz, lamb) ==
  LET gA == IF lamb > 0
              THEN Backward(ZeroGrad(pg.g, discriminator_trainable),
                            AdvReach("SSWAE_HSIC_dev") \ frz, "pre")
              ELSE pg.g
      pA == IF lamb > 0 THEN Step(pg.p, AdvParams, gA) ELSE pg.p
      gM == Backward(ZeroGrad(gA, encoder_trainable \cup decoder_trainable),
                     MainReach("SSWAE_HSIC_dev", lamb) \ frz, "pre")
  IN [p |-> Step(pA, MainParams, gM), g |-> gM]

RECURSIVE PretrainLoop(_, _, _, _)
PretrainLoop(pg, frz, lamb, k) ==
  IF k = 0 THEN pg
  ELSE PretrainLoop(PretrainIter(pg, frz, lamb), frz, lamb, k - 1)

\* train() of a new process with encoder_pretrain: self.pretrain_encoder()
\* runs before the optimizers of train() exist
PretrainEncoder ==
  /\ pc \in {"idle", "killed", "done", "failed"}
  /\ self.encoder_pretrain
  /\ self.cls = "SSWAE_HSIC_dev"
  /\ \E frz \in PretrainFreeze :
       LET r == PretrainLoop([p |-> FreshParams, g |-> FreshGrads], frz,
                             self.lamb, TrainBatches)
       IN params' = r.p /\ grads' = r.g
  /\ FreshRun
  /\ error' = "none"
  /\ prev' = IF pc = "idle" THEN "none" ELSE pc
  /\ pc' = "pretrained"
  /\ writer' = NoWriter
  /\ UNCHANGED << batch, result, cfg, built, self, resume, save_path,
                  save_state, written, written_at_start >>

\* VAE_abstract and CVAE_abstract: pretrain_encoder() is not implemented
PretrainNotImplemented ==
  /\ pc \in {"idle", "killed", "done", "failed"}
  /\ self.encoder_pretrain
  /\ self.cls \in {"VAE_abstract", "CVAE_abstract"}
  /\ Fresh
  /\ error' = "NotImplementedError"
  /\ prev' = IF pc = "idle" THEN "none" ELSE pc
  /\ pc' = "failed"
  /\ writer' = NoWriter
  /\ UNCHANGED << batch, result, cfg, built, self, resume, save_path,
                  save_state, written, written_at_start >>

\* train(resume=False) of a newly constructed model: lines up to the loop
TrainFromScratch ==
  /\ IF self.encoder_pretrain THEN pc = "pretrained" /\ prev = "none"
                               ELSE pc = "idle"
  /\ IF pc = "pretrained" THEN FreshRun /\ UNCHANGED << params, grads >>
                           ELSE Fresh
  /\ resume' = FALSE
  /\ pc' = "epoch"
  /\ error' = "none"
  /\ written_at_start' = written
  /\ prev' = "none"
  /\ writer' = SummaryWriter(self.tensorboard_dir)
  /\ UNCHANGED << batch, result, cfg, built, self, save_path, save_state,
                  written >>

\* the value start_epoch takes from the checkpoint
ResumeEpochOffByOne(ckpt) == ckpt.epoch - 1

ResumeEpoch(ckpt) == ckpt.epoch

\* self.load_state_dict(checkpoint["model_state_dict"])
LoadStateDictSkipped(p, ckpt) == p

LoadStateDict(p, ckpt) == ckpt.model_state_dict

\* where a train() call stands when it reaches its optimizers
AtOptimizers ==
  IF self.encoder_pretrain THEN pc = "pretrained"
                           ELSE pc \in {"idle", "killed", "done", "failed"}

\* train(resume=True) in a new process: torch.load and the four
\* load_state_dict calls of the resume branch
TrainResume ==
  /\ AtOptimizers
  /\ save_state.status = "complete"
  /\ ReadKeys(self.cls, self.lr_schedule) \subseteq save_state.keys
  /\ resume' = TRUE
  /\ error' = "none"
  /\ best_obj' = FreshBest
  /\ grads' = IF pc = "pretrained" THEN grads ELSE FreshGrads
  /\ start_epoch' = ResumeEpoch(save_state)
  /\ epoch' = ResumeEpoch(save_state)
  /\ params' = LoadStateDict(params, save_state)
  /\ optimizer' = save_state.optimizer
  /\ scheduler' = IF self.lr_schedule THEN save_state.scheduler ELSE FreshCounts
  /\ i' = 0
  /\ train_loss' = inc_avg(self.cls)
  /\ test_loss' = inc_avg(self.cls)
  /\ lists' = [train |-> EmptyLists(self.cls), test |-> EmptyLists(self.cls)]
  /\ hist' = [train |-> EmptyLists(self.cls), test |-> EmptyLists(self.cls)]
  /\ obj_terms' = {}
  /\ events' = << >>
  /\ executed' = << >>
  /\ sched_calls' = FreshCounts
  /\ saves' = NoSaves
  /\ selection' = NoSelection
  /\ written_at_start' = written
  /\ prev' = IF pc = "pretrained" THEN prev ELSE pc
  /\ pc' = "epoch"
  /\ writer' = SummaryWriter(self.tensorboard_dir)
  /\ UNCHANGED << batch, result, cfg, built, self, save_path, save_state,
                  written >>

\* train(resume=True) when torch.load or a checkpoint[...] lookup raises
TrainResumeFails ==
  /\ AtOptimizers
  /\ \/ save_state.status # "complete"
     \/ ~ (ReadKeys(self.cls, self.lr_schedule) \subseteq save_state.keys)
  /\ Fresh
  /\ resume' = TRUE
  /\ error' = CASE save_state.status = "none" -> "FileNotFoundError"
                [] save_state.status = "partial" -> "UnpicklingError"
                [] OTHER -> "KeyError"
  /\ written_at_start' = written
  /\ prev' = IF pc = "pretrained" THEN prev ELSE pc
  /\ pc' = "failed"
  /\ writer' = SummaryWriter(self.tensorboard_dir)
  /\ UNCHANGED << batch, result, cfg, built, self, save_path, save_state,
                  written >>

\* for epoch in range(start_epoch, self.num_epoch): the accumulators
EpochBegin ==
  /\ pc = "epoch"
  /\ epoch < self.num_epoch
  /\ train_loss' = inc_avg(self.cls)
  /\ i' = 0
  /\ events' = << >>
  /\ executed' = Append(executed, epoch)
  /\ pc' = "batch"
  /\ UNCHANGED << batch, result, writer, selection, saves, cfg, built, self,
                  prev, sched_calls, best_obj, hist, params, grads,
                  optimizer, scheduler, resume, start_epoch, epoch,
                  test_loss, lists, save_path, save_state, error, obj_terms,
                  written, written_at_start >>

\* is the adversarial half of an iteration run: if self.lamb > 0
HasAdvStepAlways == self.cls \in TwoOpt

HasAdvStep == self.cls \in TwoOpt /\ self.lamb > 0

\* the adversarial half of an iteration: zero_grad of the discriminator,
\* obj_adv.backward(), optimizer_adv.step()
AdvPhase ==
  /\ pc = "batch"
  /\ i < TrainBatches
  /\ HasAdvStep
  /\ LET g1 == ZeroGrad(Age(grads), discriminator_trainable)
         g2 == Backward(g1, AdvReach(self.cls), "adv")
     IN /\ grads' = g2
        /\ params' = Step(params, AdvParams, g2)
  /\ optimizer' = [optimizer EXCEPT !.adv = @ + 1]
  /\ events' = Append(events, "adv_step")
  /\ pc' = "main"
  /\ UNCHANGED << batch, result, writer, selection, saves, cfg, built, self,
                  prev, sched_calls, executed, best_obj, hist, scheduler,
                  resume, start_epoch, epoch, i, train_loss, test_loss,
                  lists, save_path, save_state, error, obj_terms, written,
                  written_at_start >>

\* the main half of an iteration: zero_grad of encoder and decoder, the
\* objective, obj.backward(), the main optimizer's step(), the accumulators
MainPhase ==
  /\ \/ pc = "main"
     \/ pc = "batch" /\ i < TrainBatches /\ ~ HasAdvStep
  /\ LET g0 == IF pc = "main" THEN grads ELSE Age(grads)
         g1 == ZeroGrad(g0, encoder_trainable \cup decoder_trainable)
         g2 == Backward(g1, MainReach(self.cls, self.lamb), "main")
     IN /\ grads' = g2
        /\ params' = Step(params, MainParams, g2)
  /\ obj_terms' = ObjTerms(self.cls, self.lamb)
  /\ optimizer' = [optimizer EXCEPT !.main = @ + 1]
  /\ train_loss' = AccAppend(train_loss, self.cls, self.lamb)
  /\ events' = Append(events, "main_step")
  /\ i' = i + 1
  /\ pc' = "batch"
  /\ UNCHANGED << batch, result, writer, selection, saves, cfg, built, self,
                  prev, sched_calls, executed, best_obj, hist, scheduler,
                  resume, start_epoch, epoch, test_loss, lists, save_path,
                  save_state, error, written, written_at_start >>

\* after the last batch: the training averages go to the lists
TrainEnd ==
  /\ pc = "batch"
  /\ i = TrainBatches
  /\ lists' = [lists EXCEPT !.train = ListAppend(@, train_loss, epoch)]
  /\ events' = Append(events, "train_end")
  /\ pc' = "validate"
  /\ writer' = WriterLog(writer, self.tensorboard_dir)
  /\ UNCHANGED << batch, result, selection, saves, cfg, built, self, prev,
                  sched_calls, executed, best_obj, hist, params, grads,
                  optimizer, scheduler, resume, start_epoch, epoch, i,
                  train_loss, test_loss, save_path, save_state, error,
                  obj_terms, written, written_at_start >>

RECURSIVE Times(_, _, _, _)
Times(acc, c, lamb, k) ==
  IF k = 0 THEN acc ELSE Times(AccAppend(acc, c, lamb), c, lamb, k - 1)

\* validation_step with validate_batch: the pass over the test loader
Validate ==
  /\ pc = "validate"
  /\ self.validate_batch
  /\ LET acc == Times(inc_avg(self.cls), self.cls, self.lamb, TestBatches)
     IN /\ test_loss' = acc
        /\ lists' = [lists EXCEPT !.test = ListAppend(@, acc, epoch)]
  /\ events' = Append(events, "validate")
  /\ pc' = "save"
  /\ writer' = IF self.cls = "classifier_abstract"
               THEN writer
               ELSE WriterLog(writer, self.tensorboard_dir)
  /\ UNCHANGED << batch, result, selection, saves, cfg, built, self, prev,
                  sched_calls, executed, best_obj, hist, params, grads,
                  optimizer, scheduler, resume, start_epoch, epoch, i,
                  train_loss, save_path, save_state, error, obj_terms,
                  written, written_at_start >>

\* validation_step without validate_batch: only the fresh accumulators
SkipValidate ==
  /\ pc = "validate"
  /\ ~ self.validate_batch
  /\ test_loss' = inc_avg(self.cls)
  /\ pc' = "sched"
  /\ UNCHANGED << batch, result, writer, selection, saves, cfg, built, self,
                  prev, sched_calls, executed, best_obj, hist, params, grads,
                  optimizer, scheduler, resume, start_epoch, epoch, i,
                  train_loss, lists, save_path, save_state, error, obj_terms,
                  events, written, written_at_start >>

\* self.save(self.save_path)
Saved(p, e) == [exists |-> TRUE, params |-> p, epoch |-> e]

\* the accumulators whose averages make up the save_best objective
\* obj = test_loss_main.avg + self.lamb * test_loss_penalty.avg
SelectionTerms(c) == {"main", "penalty"}

\* if self.best_obj[1] > obj
ImprovesOrTies(best, obj) == best[2] >= obj

Improves(best, obj) == best[2] > obj

\* save_best: the model is saved when the validation objective improves
SaveBest ==
  /\ pc = "save"
  /\ self.save_best
  /\ self.cls # "classifier_abstract"
  /\ \E obj \in ObjValues :
       /\ selection' =
            [selection EXCEPT !.seen =
               Append(@, [epoch |-> epoch + 1, obj |-> obj,
                          terms |-> SelectionTerms(self.cls),
                          before |-> best_obj[2],
                          saved |-> Improves(best_obj, obj)])]
       /\ IF Improves(best_obj, obj)
            THEN /\ best_obj' = << epoch + 1, obj >>
                 /\ save_path' = Saved(params, epoch)
                 /\ saves' = [saves EXCEPT !.loop = @ + 1]
                 /\ events' = Append(events, "save")
            ELSE UNCHANGED << best_obj, save_path, saves, events >>
  /\ pc' = "sched"
  /\ UNCHANGED << batch, result, writer, cfg, built, self, prev, sched_calls,
                  executed, hist, params, grads, optimizer, scheduler,
                  resume, start_epoch, epoch, i, train_loss, test_loss,
                  lists, save_state, error, obj_terms, written,
                  written_at_start >>

\* classifier_abstract reads test_loss_penalty, which it never assigns
SaveBestNameError ==
  /\ pc = "save"
  /\ self.save_best
  /\ self.cls = "classifier_abstract"
  /\ error' = "NameError"
  /\ pc' = "failed"
  /\ UNCHANGED << batch, result, writer, selection, saves, cfg, built, self,
                  prev, sched_calls, executed, best_obj, hist, params, grads,
                  optimizer, scheduler, resume, start_epoch, epoch, i,
                  train_loss, test_loss, lists, save_path, save_state,
                  obj_terms, events, written, written_at_start >>

\* without save_best the model is saved after every validation
SaveEvery ==
  /\ pc = "save"
  /\ ~ self.save_best
  /\ save_path' = Saved(params, epoch)
  /\ saves' = [saves EXCEPT !.loop = @ + 1]
  /\ events' = Append(events, "save")
  /\ pc' = "sched"
  /\ UNCHANGED << batch, result, writer, selection, cfg, built, self, prev,
                  sched_calls, executed, best_obj, hist, params, grads,
                  optimizer, scheduler, resume, start_epoch, epoch, i,
                  train_loss, test_loss, lists, save_state, error, obj_terms,
                  written, written_at_start >>

\* does the adversarial scheduler step at the end of an epoch
AdvSchedulerStepsAlways(c, lamb) == c \in TwoOpt

AdvSchedulerSteps(c, lamb) == c \in TwoOpt /\ lamb > 0

\* (the scheduler steps placed after the checkpoint write)
SchedulerStepAfterCheckpoint ==
  /\ pc = "sched"
  /\ scheduler' = [main |-> scheduler.main + 1, adv |-> scheduler.adv]
  /\ sched_calls' = [main |-> sched_calls.main + 1, adv |-> sched_calls.adv]
  /\ save_state' =
       IF self.save_state
         THEN [status |-> "complete",
               keys |-> WriteKeys(self.cls, self.lr_schedule),
               epoch |-> epoch + 1, model_state_dict |-> params,
               optimizer |-> optimizer, scheduler |-> scheduler]
         ELSE save_state
  /\ written' = IF self.save_state THEN written \cup {epoch} ELSE written
  /\ events' = events \o << "ckpt", "sched_main" >>
  /\ epoch' = epoch + 1
  /\ pc' = "epoch"
  /\ UNCHANGED << batch, result, writer, selection, saves, cfg, built, self,
                  prev, executed, best_obj, hist, params, grads, optimizer,
                  resume, start_epoch, i, train_loss, test_loss, lists,
                  save_path, error, obj_terms, written_at_start >>

\* scheduler.step() / scheduler_main.step() and scheduler_adv.step()
SchedulerStep ==
  /\ pc = "sched"
  /\ scheduler' =
       [main |-> scheduler.main + 1,
        adv |-> IF AdvSchedulerSteps(self.cls, self.lamb)
                  THEN scheduler.adv + 1 ELSE scheduler.adv]
  /\ sched_calls' =
       [main |-> sched_calls.main + 1,
        adv |-> IF AdvSchedulerSteps(self.cls, self.lamb)
                  THEN sched_calls.adv + 1 ELSE sched_calls.adv]
  /\ events' =
       events \o << "sched_main" >>
         \o (IF AdvSchedulerSteps(self.cls, self.lamb)
               THEN << "sched_adv" >> ELSE << >>)
  /\ IF self.save_state
       THEN pc' = "ckpt" /\ epoch' = epoch
       ELSE pc' = "epoch" /\ epoch' = epoch + 1
  /\ UNCHANGED << batch, result, writer, selection, saves, cfg, built, self,
                  prev, executed, best_obj, hist, params, grads, optimizer,
                  resume, start_epoch, i, train_loss, test_loss, lists,
                  save_path, save_state, error, obj_terms, written,
                  written_at_start >>

\* the "epoch" entry of save_dict
StoredEpochSame(e) == e

StoredEpoch(e) == e + 1

\* save_dict of the end of an epoch
SaveDict ==
  [status |-> "complete",
   keys |-> WriteKeys(self.cls, self.lr_schedule),
   epoch |-> StoredEpoch(epoch),
   model_state_dict |-> params,
   optimizer |-> optimizer,
   scheduler |-> IF self.lr_schedule THEN scheduler ELSE FreshCounts]

\* torch.save(save_dict, self.save_state) opens the file for writing ...
CheckpointOpen ==
  /\ pc = "ckpt"
  /\ save_state' = [NoCheckpoint EXCEPT !.status = "partial"]
  /\ pc' = "ckpt_write"
  /\ UNCHANGED << batch, result, writer, selection, saves, cfg, built, self,
                  prev, sched_calls, executed, best_obj, hist, params, grads,
                  optimizer, scheduler, resume, start_epoch, epoch, i,
                  train_loss, test_loss, lists, save_path, error, obj_terms,
                  events, written, written_at_start >>

\* ... and writes the dictionary; the loop goes to the next epoch
CheckpointWrite ==
  /\ pc = "ckpt_write"
  /\ save_state' = SaveDict
  /\ written' = written \cup {epoch}
  /\ events' = Append(events, "ckpt")
  /\ epoch' = epoch + 1
  /\ pc' = "epoch"
  /\ UNCHANGED << batch, result, writer, selection, saves, cfg, built, self,
                  prev, sched_calls, executed, best_obj, hist, params, grads,
                  optimizer, scheduler, resume, start_epoch, i, train_loss,
                  test_loss, lists, save_path, error, obj_terms,
                  written_at_start >>

\* if not self.validate_batch: self.save(self.save_path)
SavesAfterLoopAlways(validate_batch) == TRUE

SavesAfterLoop(validate_batch) == ~ validate_batch

\* after the loop: the final save without validate_batch, and self.hist
Finish ==
  /\ pc = "epoch"
  /\ epoch >= self.num_epoch
  /\ save_path' = IF SavesAfterLoop(self.validate_batch)
                   THEN Saved(params, epoch)
                   ELSE save_path
  /\ saves' = IF SavesAfterLoop(self.validate_batch)
               THEN [saves EXCEPT !.final = @ + 1]
               ELSE saves
  /\ hist' = lists
  /\ pc' = "done"
  /\ writer' = WriterClose(writer, self.tensorboard_dir)
  /\ UNCHANGED << batch, result, selection, cfg, built, self, prev,
                  sched_calls, best_obj, params, grads, optimizer, scheduler,
                  resume, start_epoch, epoch, i, train_loss, test_loss,
                  lists, save_state, error, obj_terms, events, executed,
                  written, written_at_start >>

\* the process is killed while train() runs; only the files survive
Interrupt ==
  /\ pc \in {"pretrained", "epoch", "batch", "main", "validate", "save",
             "sched", "ckpt", "ckpt_write"}
  /\ Fresh
  /\ pc' = "killed"
  /\ writer' = NoWriter
  /\ UNCHANGED << batch, result, cfg, built, self, resume, save_path,
                  save_state, error, written, written_at_start, prev >>

Next ==
  \/ PretrainEncoder
  \/ PretrainNotImplemented
  \/ TrainFromScratch
  \/ TrainResume
  \/ TrainResumeFails
  \/ EpochBegin
  \/ AdvPhase
  \/ MainPhase
  \/ TrainEnd
  \/ Validate
  \/ SkipValidate
  \/ SaveBest
  \/ SaveBestNameError
  \/ SaveEvery
  \/ SchedulerStep
  \/ CheckpointOpen
  \/ CheckpointWrite
  \/ Finish
  \/ Interrupt

Spec == Init /\ [][Next]_vars

\* ----------------------------------------------------------- construction
\* Model(cfg, log, device): __init__ runs to its end or raises
Construct ==
  /\ built.state = "new"
  /\ LET r == Run(InitOf(built.cls), cfg, NoAttrs)
     IN built' = [cls |-> built.cls,
                  state |-> IF r.exc = "none" THEN "built" ELSE "raised",
                  attrs |-> r.attrs, exc |-> r.exc]
  /\ UNCHANGED << batch, result, writer, selection, saves, cfg, self,
                  best_obj, hist, params, grads, optimizer, scheduler, pc,
                  resume, start_epoch, epoch, i, train_loss, test_loss,
                  lists, save_path, save_state, error, obj_terms, events,
                  executed, written, written_at_start, prev, sched_calls >>

InitConstruct ==
  /\ \E c \in CtorClasses :
       /\ cfg \in CfgsOf(c)
       /\ built = [NotBuilt EXCEPT !.cls = c]
  /\ Untrained([cls |-> "classifier_abstract", lamb |-> 0,
                validate_batch |-> FALSE, save_best |-> FALSE,
                save_state |-> FALSE, lr_schedule |-> FALSE, num_epoch |-> 0,
                encoder_pretrain |-> FALSE, tensorboard_dir |-> ""])
  /\ batch = NoBatch
  /\ result = NoResult

NextConstruct == Construct

SpecConstruct == InitConstruct /\ [][NextConstruct]_vars


\* ------------------------------------------------------------------ losses
\* everything train() and the constructor hold; a loss computation reads
\* its arguments only
training ==
  << self, best_obj, hist, params, grads, optimizer, scheduler, pc, resume,
     start_epoch, epoch, i, train_loss, test_loss, lists, save_path,
     save_state, error, obj_terms, events, executed, written,
     written_at_start, prev, sched_calls, cfg, built, saves, selection,
     writer >>

Sizes == 1 .. MaxBatch
Losses == 0 .. MaxLoss
Weights == 1 .. MaxLoss

\* classes whose validation passes n = len(data) to the MMD penalty_loss
MMDValidated == {"SSWAE_MMD_abstract", "SSWAE_MMD_dev"}

\* classes that train on a labeled and an unlabeled loader
TwoLoader ==
  {"SSWAE_MMD_abstract", "SSWAE_GAN_abstract", "SSWAE_HSIC_abstract"}

\* torch.utils.data.DataLoader: the lengths of the batches it yields
DataLoader(size, batch_size, drop_last) ==
  [j \in 1 .. (size \div batch_size) |-> batch_size]
    \o (IF size % batch_size > 0 /\ ~drop_last
        THEN << size % batch_size >>
        ELSE << >>)

\* tensor division: a zero divisor gives nan or inf, no exception
Quotient(divisor) == IF divisor = 0 THEN "nonfinite" ELSE "finite"

\* (k(x,x) + k(y,y)) / (n * (n - 1)) - 2 * k(x,y) / (n * n)
penalty_loss(n) ==
  [n |-> n, den1 |-> n * (n - 1), den2 |-> n * n,
   value |-> IF "nonfinite" \in {Quotient(n * (n - 1)), Quotient(n * n)}
             THEN "nonfinite"
             ELSE "finite"]

\* SSWAE_HSIC_dev.penalty_loss_mask: the MMD over the samples valid_y
\* selects, the GAN and HSIC terms over the whole batch
penalty_loss_mask(valid_y) ==
  LET any == \E j \in DOMAIN valid_y : valid_y[j]
      sum == Cardinality({j \in DOMAIN valid_y : valid_y[j]})
  IN [gan |-> Len(valid_y),
      mmd |-> IF any
              THEN penalty_loss(sum)
              ELSE [n |-> 0, den1 |-> 1, den2 |-> 1, value |-> "zero"],
      hsic |-> Len(valid_y)]

\* a * (w / d) + b * (v / d) as a fraction over d
Mix(a, w, b, v, d) == [num |-> a * w + b * v, den |-> d]

\* the batch size that weights the unlabeled losses los1, los2 in the
\* recorded training metrics
MetricWeight(c, n1, n2) == IF c = "SSWAE_MMD_abstract" THEN n1 ELSE n2

ValidationInputs ==
  [kind : {"validation"}, cls : MMDValidated, lamb : {0, 1},
   batch_size : Sizes, test_size : 1 .. (MaxBatch + 1)]

MaskInputs ==
  UNION {[kind : {"mask"}, valid_y : [1 .. n -> BOOLEAN]] : n \in Sizes}

MixInputs ==
  [kind : {"mix"}, cls : TwoLoader, n1 : Sizes, n2 : Sizes, lamb2 : Weights,
   loss1 : Losses, loss2 : Losses, los1 : Losses, los2 : Losses]

\* the sizes of the labeled and the unlabeled training set and the two
\* batch sizes of a two-loader class
LoaderInputs ==
  [kind : {"loaders"}, cls : TwoLoader, size1 : 0 .. (MaxBatch + MaxBatch),
   size2 : 0 .. (MaxBatch + MaxBatch), batch_size1 : Sizes,
   batch_size2 : Sizes]

AdvInputs ==
  [kind : {"adv"}, lamb : {0, 1}, lamb_class : Weights, lamb_adv : Weights,
   loss1 : Losses, loss2 : Losses, class_adv : Losses, penalty : Losses]

\* one batch of the validation loop of SSWAE_MMD_abstract / SSWAE_MMD_dev
ValidationBatch ==
  /\ batch.kind = "validation"
  /\ LET test_generator == DataLoader(batch.test_size, batch.batch_size, FALSE)
         seen == IF result.kind = "none" THEN << >> ELSE result.n
         penalties == IF result.kind = "none"
                      THEN << >>
                      ELSE result.test_loss_penalty
     IN /\ Len(seen) < Len(test_generator)
        /\ LET n == test_generator[Len(seen) + 1]
           IN result' =
                [kind |-> "validation",
                 n |-> Append(seen, n),
                 test_loss_penalty |->
                   IF batch.lamb > 0
                   THEN Append(penalties, penalty_loss(n))
                   ELSE penalties]
  /\ UNCHANGED << training, batch >>

\* gan, mmd, hsic = self.penalty_loss_mask(fake_latent, y, valid_y)
PenaltyLossMask ==
  /\ batch.kind = "mask"
  /\ result.kind = "none"
  /\ result' = [kind |-> "mask"] @@ penalty_loss_mask(batch.valid_y)
  /\ UNCHANGED << training, batch >>

\* one training batch of a two-loader class: the objective passed to
\* backward() and the values appended to the training accumulators
TrainMetrics ==
  /\ batch.kind = "mix"
  /\ result.kind = "none"
  /\ LET n1 == batch.n1
         n2 == batch.n2
         loss == batch.loss1 + batch.lamb2 * batch.loss2
         los == batch.los1 + batch.lamb2 * batch.los2
         w == MetricWeight(batch.cls, n1, n2)
     IN result' =
          [kind |-> "mix",
           obj |-> Mix(loss, n1, los, n2, n1 + n2),
           train_loss_main |-> Mix(batch.loss1, n1, batch.los1, w, n1 + n2),
           train_loss_main2 |-> Mix(batch.loss2, n1, batch.los2, w, n1 + n2)]
  /\ UNCHANGED << training, batch >>

\* the main objective of one training batch of SSWAE_adv_abstract
AdvObjective ==
  /\ batch.kind = "adv"
  /\ result.kind = "none"
  /\ result' =
       [kind |-> "adv",
        obj |-> IF batch.lamb > 0
                THEN batch.loss1 * batch.lamb_class * batch.loss2
                       + batch.lamb * batch.penalty
                       - batch.lamb_adv * batch.class_adv
                ELSE batch.loss1 * batch.lamb_class * batch.loss2
                       - batch.lamb_adv * batch.class_adv]
  /\ UNCHANGED << training, batch >>

\* self.train_generator1, self.train_generator2: both with drop_last=True
train_generator1 == DataLoader(batch.size1, batch.batch_size1, TRUE)
train_generator2 == DataLoader(batch.size2, batch.batch_size2, TRUE)

\* iter_per_epoch = min(len(train_generator1), len(train_generator2))
IterPerEpochLonger(len1, len2) == IF len1 < len2 THEN len2 ELSE len1

IterPerEpoch(len1, len2) == IF len1 < len2 THEN len1 ELSE len2

iter_per_epoch == IterPerEpoch(Len(train_generator1), Len(train_generator2))

\* next(tr) on an iterator that has yielded tr batches of generator
HasNext(generator, tr) == tr < Len(generator)

\* for epoch in range(...): tr1 = iter(train_generator1),
\* tr2 = iter(train_generator2)
LoaderEpochBegin ==
  /\ batch.kind = "loaders"
  /\ \/ /\ result.kind = "none"
        /\ result' = [kind |-> "loaders", epoch |-> 0, i |-> 0, tr1 |-> 0,
                      tr2 |-> 0, drawn |-> << >>, error |-> "none"]
     \/ /\ result.kind = "loaders"
        /\ result.error = "none"
        /\ result.i >= iter_per_epoch
        /\ result.epoch + 1 < MaxEpoch
        /\ result' = [result EXCEPT !.epoch = @ + 1, !.i = 0, !.tr1 = 0,
                                      !.tr2 = 0, !.drawn = << >>]
  /\ UNCHANGED << training, batch >>

\* for i in range(iter_per_epoch): next(tr1), next(tr2); the losses are
\* then weighted with n1 = batch_size1, n2 = batch_size2
LoaderNext ==
  /\ batch.kind = "loaders"
  /\ result.kind = "loaders"
  /\ result.error = "none"
  /\ result.i < iter_per_epoch
  /\ IF HasNext(train_generator1, result.tr1)
          /\ HasNext(train_generator2, result.tr2)
       THEN result' =
              [result EXCEPT
                 !.i = @ + 1, !.tr1 = @ + 1, !.tr2 = @ + 1,
                 !.drawn = Append(@, [len1 |-> train_generator1[result.tr1 + 1],
                                      len2 |-> train_generator2[result.tr2 + 1],
                                      n1 |-> batch.batch_size1,
                                      n2 |-> batch.batch_size2])]
       ELSE result' = [result EXCEPT !.error = "StopIteration"]
  /\ UNCHANGED << training, batch >>

InitLosses ==
  /\ Untrained([cls |-> "classifier_abstract", lamb |-> 0,
                validate_batch |-> FALSE, save_best |-> FALSE,
                save_state |-> FALSE, lr_schedule |-> FALSE, num_epoch |-> 0,
                encoder_pretrain |-> FALSE, tensorboard_dir |-> ""])
  /\ cfg = NoConfig
  /\ built = NotBuilt
  /\ \/ batch \in ValidationInputs
     \/ batch \in MaskInputs
     \/ batch \in MixInputs
     \/ batch \in AdvInputs
     \/ batch \in LoaderInputs
  /\ result = NoResult

NextLosses ==
  \/ ValidationBatch
  \/ PenaltyLossMask
  \/ TrainMetrics
  \/ AdvObjective
  \/ LoaderEpochBegin
  \/ LoaderNext

SpecLosses == InitLosses /\ [][NextLosses]_vars


\* ------------------------------------------------- pretraining: requires_grad
\* self.pretrain_freeze, the requires_grad flag of each module's parameters
\* when pretrain_encoder() is called, and self.encoder_pretrain_step
FreezeInputs ==
  [kind : {"freeze"}, pretrain_freeze : SUBSET encoder_trainable,
   requires_grad : [Modules -> BOOLEAN], encoder_pretrain_step : 0 .. MaxEpoch]

\* for net in self.pretrain_freeze: p.requires_grad = flag
SetRequiresGrad(requires_grad, nets, flag) ==
  [m \in Modules |-> IF m \in nets THEN flag ELSE requires_grad[m]]

\* the flag the last loop of pretrain_encoder() assigns
FlagAsBefore(before) == before

FlagAfterPretrain(before) == TRUE

\* the first loop of pretrain_encoder()
FreezeParams ==
  /\ batch.kind = "freeze"
  /\ result.kind = "none"
  /\ result' =
       [kind |-> "freeze", pc |-> "loop", epoch |-> 0,
        requires_grad |-> SetRequiresGrad(batch.requires_grad,
                                          batch.pretrain_freeze, FALSE)]
  /\ UNCHANGED << training, batch >>

\* one epoch of for epoch in range(self.encoder_pretrain_step): no statement
\* of the loop assigns requires_grad
PretrainEpoch ==
  /\ batch.kind = "freeze"
  /\ result.kind = "freeze"
  /\ result.pc = "loop"
  /\ result.epoch < batch.encoder_pretrain_step
  /\ result' = [result EXCEPT !.epoch = @ + 1]
  /\ UNCHANGED << training, batch >>

\* the last loop of pretrain_encoder(), then the return
UnfreezeParams ==
  /\ batch.kind = "freeze"
  /\ result.kind = "freeze"
  /\ result.pc = "loop"
  /\ result.epoch >= batch.encoder_pretrain_step
  /\ result' =
       [result EXCEPT
          !.pc = "returned",
          !.requires_grad =
            [m \in Modules |->
               IF m \in batch.pretrain_freeze
               THEN FlagAfterPretrain(batch.requires_grad[m])
               ELSE @[m]]]
  /\ UNCHANGED << training, batch >>

InitPretrain ==
  /\ Untrained([cls |-> "SSWAE_HSIC_dev", lamb |-> 0,
                validate_batch |-> FALSE, save_best |-> FALSE,
                save_state |-> FALSE, lr_schedule |-> FALSE, num_epoch |-> 0,
                encoder_pretrain |-> TRUE, tensorboard_dir |-> ""])
  /\ cfg = NoConfig
  /\ built = NotBuilt
  /\ batch \in FreezeInputs
  /\ result = NoResult

NextPretrain ==
  \/ FreezeParams
  \/ PretrainEpoch
  \/ UnfreezeParams

SpecPretrain == InitPretrain /\ [][NextPretrain]_vars


\* ---------------------------------------------------------------- datasets
\* labels of the rows of mnist_train.csv / mnist_test.csv, in file order
SampleDigits == {0, 1, 2}
DataFiles == UNION {[1 .. n -> SampleDigits] : n \in 0 .. MaxRows}

\* portion, a fraction num / den that is not negative
Portions == [num : 0 .. (PortionDen + 1), den : {PortionDen}]

\* int(n * portion)
IntTimes(n, portion) == (n * portion.num) \div portion.den

\* the class lists of aux = [known, unknown]
AuxLists == UNION {[1 .. n -> SampleDigits] : n \in 0 .. 2}

MNISTInputs == [kind : {"MNIST"}, data : DataFiles, portion : Portions]

rmMNISTInputs ==
  [kind : {"rmMNIST"}, data : DataFiles, portion : Portions,
   given : {TRUE}, known : AuxLists, unknown : AuxLists]
    \cup [kind : {"rmMNIST"}, data : DataFiles, portion : Portions,
          given : {FALSE}, known : {<< >>}, unknown : {<< >>}]

\* np.eye(n), followed by zeros rows of np.zeros
Eye(n, zeros) ==
  [r \in 1 .. (n + zeros) |-> [c \in 1 .. n |-> IF r = c THEN 1 ELSE 0]]

\* self.data[k:, 0] = 10: is the row of 0-based index idx in the slice
MaskedAfter(idx, k) == idx > k

Masked(idx, k) == idx >= k

\* the label column after MNIST.__init__
MNISTLabels(data, portion) ==
  IF portion.num < portion.den
  THEN [r \in 1 .. Len(data) |->
          IF Masked(r - 1, IntTimes(Len(data), portion)) THEN 10 ELSE data[r]]
  ELSE data

\* the labels lab_ind is computed from
ClassOfCurrent(original, current) == current

ClassOf(original, current) == original

\* lab_ind[d]: the rows of digit d, in file order
lab_ind(labels, d) ==
  SelectSeq([r \in 1 .. Len(labels) |-> r], LAMBDA r : labels[r] = d)

\* q[0:k]
Take(q, k) == SubSeq(q, 1, IF k < Len(q) THEN k ELSE Len(q))

\* for i in classes: the rows kept of digit i get the label recode and are
\* added to all_ind; recode grows by step
RECURSIVE Recode(_, _, _, _, _)
Recode(st, original, classes, portion, step) ==
  IF classes = << >> THEN st
  ELSE LET ind == lab_ind(ClassOf(original, st.labels), Head(classes))
           using_digit_ind == Take(ind, IntTimes(Len(ind), portion))
           using == {using_digit_ind[j] : j \in DOMAIN using_digit_ind}
       IN Recode([labels |-> [r \in DOMAIN st.labels |->
                                IF r \in using THEN st.recode
                                               ELSE st.labels[r]],
                  all_ind |-> st.all_ind \o using_digit_ind,
                  recode |-> st.recode + step],
                 original, Tail(classes), portion, step)

\* the rows of np.eye(recode + unknown)
CodeRowsKnownOnly(recode, unknown) == recode

CodeRows(recode, unknown) == recode + unknown

NoItem == [idx |-> 0, y |-> << >>, valid_y |-> FALSE, error |-> "none"]

\* MNIST(data_home, train, label, output_channels, portion)
MNIST_init ==
  /\ batch.kind = "MNIST"
  /\ result.kind = "none"
  /\ LET labels == MNISTLabels(batch.data, batch.portion)
     IN result' =
          [kind |-> "dataset",
           rows |-> [r \in 1 .. Len(labels) |->
                       [src |-> r, label |-> labels[r]]],
           code |-> Eye(10, 1),
           item |-> NoItem]
  /\ UNCHANGED << training, batch >>

\* rmMNIST(data_home, train, label, output_channels, aux, portion)
rmMNIST_init ==
  /\ batch.kind = "rmMNIST"
  /\ result.kind = "none"
  /\ IF batch.given
       THEN LET start == [labels |-> batch.data, all_ind |-> << >>,
                          recode |-> 0]
                known == Recode(start, batch.data, batch.known,
                                batch.portion, 1)
                all == Recode(known, batch.data, batch.unknown,
                              batch.portion, 0)
                unknown == IF batch.unknown = << >> THEN 0 ELSE 1
            IN result' =
                 [kind |-> "dataset",
                  rows |-> [j \in 1 .. Len(all.all_ind) |->
                              [src |-> all.all_ind[j],
                               label |-> all.labels[all.all_ind[j]]]],
                  code |-> Eye(CodeRows(all.recode, unknown), 0),
                  item |-> NoItem]
       ELSE result' =
              [kind |-> "dataset",
               rows |-> [r \in 1 .. Len(batch.data) |->
                           [src |-> r, label |-> batch.data[r]]],
               code |-> Eye(10, 0),
               item |-> NoItem]
  /\ UNCHANGED << training, batch >>

RECURSIVE SumRow(_)
SumRow(row) == IF row = << >> THEN 0 ELSE Head(row) + SumRow(Tail(row))

\* dataset[idx] with label=True: the code row of the label, and the mask
\* valid_y = y.sum(dim=1).ge(0.5) a training step derives from it
getitem ==
  /\ result.kind = "dataset"
  /\ result.item = NoItem
  /\ \E idx \in DOMAIN result.rows :
       LET label == result.rows[idx].label
       IN result' =
            [result EXCEPT !.item =
               IF label + 1 \in DOMAIN result.code
               THEN [idx |-> idx, y |-> result.code[label + 1],
                     valid_y |-> 2 * SumRow(result.code[label + 1]) >= 1,
                     error |-> "none"]
               ELSE [idx |-> idx, y |-> << >>, valid_y |-> FALSE,
                     error |-> "IndexError"]]
  /\ UNCHANGED << training, batch >>

InitData ==
  /\ Untrained([cls |-> "SSWAE_HSIC_dev", lamb |-> 0,
                validate_batch |-> FALSE, save_best |-> FALSE,
                save_state |-> FALSE, lr_schedule |-> FALSE, num_epoch |-> 0,
                encoder_pretrain |-> FALSE, tensorboard_dir |-> ""])
  /\ cfg = NoConfig
  /\ built = NotBuilt
  /\ \/ batch \in MNISTInputs
     \/ batch \in rmMNISTInputs
  /\ result = NoResult

NextData ==
  \/ MNIST_init
  \/ rmMNIST_init
  \/ getitem

SpecData == InitData /\ [][NextData]_vars


TypeOK ==
  /\ self \in Configs
  /\ pc \in {"idle", "pretrained", "epoch", "batch", "main", "validate",
             "save", "sched", "ckpt", "ckpt_write", "done", "failed",
             "killed"}
  /\ epoch \in 0 .. MaxEpoch + 1


\* ------------------------------------------------------------- properties
Range(q) == {q[k] : k \in DOMAIN q}
Max0(a) == IF a > 0 THEN a ELSE 0
AllEpochs == 0 .. (self.num_epoch - 1)
StepEvents == SelectSeq(events, LAMBDA ev : ev \in {"adv_step", "main_step"})

\* C1 as stated: a resumed run that follows an interrupted run executes
\* every epoch whose checkpoint had not been written and no other epoch,
\* whatever the point of the interruption.
C1_AnyInterruption ==
  (self.save_state /\ resume /\ prev = "killed" /\ pc \in {"done", "failed"})
    => Range(executed) = AllEpochs \ written_at_start

\* C1 amended: the checkpoint of epoch e stores epoch = e + 1; a resumed run
\* that finds a completely written checkpoint starts at the stored value,
\* which is the number of checkpoints written, runs the epochs from there on
\* in order, never enters an epoch whose checkpoint was written, and has
\* executed exactly the unwritten epochs when it completes.
C1_ResumeContinues ==
  /\ save_state.status = "complete"
       => /\ written = 0 .. (save_state.epoch - 1)
          /\ save_state.epoch >= 1
  /\ (resume /\ pc \notin {"failed", "killed", "pretrained"})
       => /\ written_at_start = 0 .. (start_epoch - 1)
          /\ \A k \in DOMAIN executed : executed[k] = start_epoch + k - 1
          /\ Range(executed) \cap written_at_start = {}
          /\ pc = "done" => Range(executed) = AllEpochs \ written_at_start

C1_Witness ==
  /\ resume
  /\ prev = "killed"
  /\ pc = "done"
  /\ start_epoch = 1
  /\ executed = << 1 >>

\* C2: resuming from a checkpoint written by the same class with the same
\* lr_schedule setting never reads a key that the checkpoint lacks.
C2_NoMissingKey ==
  /\ error # "KeyError"
  /\ save_state.status = "complete"
       => ReadKeys(self.cls, self.lr_schedule) \subseteq save_state.keys

C2_Witness ==
  /\ resume
  /\ pc = "epoch"
  /\ error = "none"
  /\ self.lr_schedule
  /\ self.cls \in TwoOpt
  /\ "scheduler_adv" \in save_state.keys

\* C3: in the two-optimizer classes every iteration with lamb > 0 makes one
\* optimizer_adv.step() followed by one optimizer_main.step(); with
\* lamb <= 0 optimizer_adv.step() is never called and optimizer_main.step()
\* is called once per batch.
C3_Alternation ==
  self.cls \in TwoOpt =>
    IF self.lamb > 0
      THEN /\ \A k \in DOMAIN StepEvents :
                StepEvents[k] = IF k % 2 = 1 THEN "adv_step" ELSE "main_step"
           /\ pc = "batch" => Len(StepEvents) = 2 * i
           /\ pc = "main" => Len(StepEvents) = 2 * i + 1
           /\ pc # "main" => optimizer.adv = optimizer.main
      ELSE /\ optimizer.adv = 0
           /\ \A k \in DOMAIN StepEvents : StepEvents[k] = "main_step"
           /\ pc = "batch" => Len(StepEvents) = i
           /\ pc # "main"

C3_Witness ==
  /\ self.cls \in TwoOpt
  /\ self.lamb > 0
  /\ pc = "batch"
  /\ i = 2
  /\ events = << "adv_step", "main_step", "adv_step", "main_step" >>

\* C4 as stated: in every train() variant the objective passed to
\* backward() holds the penalty terms when lamb > 0 and no penalty, MMD or
\* HSIC term when lamb <= 0.
C4_PenaltyGatedByLamb ==
  obj_terms # {} =>
    IF self.lamb > 0
      THEN PenaltyOf(self.cls) \subseteq obj_terms
      ELSE obj_terms \cap PenaltyNames = {}

\* C5: the main scheduler steps once per executed epoch, after the epoch's
\* training and validation and before the checkpoint write; the adversarial
\* scheduler steps once per epoch when lamb > 0 and never otherwise, so the
\* two step counts agree exactly when lamb > 0 or no epoch was executed.
C5_SchedulerOncePerEpoch ==
  /\ pc \in {"epoch", "done"}
       => /\ sched_calls.main = epoch - start_epoch
          /\ self.cls \in TwoOpt =>
               sched_calls.adv = IF self.lamb > 0 THEN epoch - start_epoch
                                                  ELSE 0
  /\ self.cls \in SingleOpt => sched_calls.adv = 0
  /\ \A k \in DOMAIN events :
       /\ events[k] = "sched_main"
            => /\ \E j \in 1 .. (k - 1) : events[j] = "train_end"
               /\ self.validate_batch
                    => \E j \in 1 .. (k - 1) : events[j] = "validate"
               /\ \A j \in 1 .. (k - 1) : events[j] \notin {"ckpt", "sched_main"}
       /\ events[k] = "ckpt"
            => \E j \in 1 .. (k - 1) : events[j] = "sched_main"
  /\ self.cls \in TwoOpt
       => /\ (sched_calls.main = sched_calls.adv)
               <=> (self.lamb > 0 \/ sched_calls.main = 0)
          /\ (scheduler.main = scheduler.adv)
               <=> (self.lamb > 0 \/ scheduler.main = 0)

C5_Witness ==
  /\ self.cls \in TwoOpt
  /\ self.lamb = 0
  /\ pc = "done"
  /\ sched_calls = [main |-> 2, adv |-> 0]

\* C6: when train() returns, every training list of hist has
\* max(num_epoch - start_epoch, 0) entries, one per executed epoch and each
\* the average of that epoch's batches alone; every validation list has as
\* many with validate_batch and none without.
C6_HistPerExecutedEpoch ==
  pc = "done" =>
    LET k == Max0(self.num_epoch - start_epoch)
    IN /\ DOMAIN hist.train = MetricsOf(self.cls)
       /\ DOMAIN hist.test = MetricsOf(self.cls)
       /\ \A m \in MetricsOf(self.cls) :
            /\ Len(hist.train[m]) = k
            /\ Len(hist.test[m]) = IF self.validate_batch THEN k ELSE 0
            /\ \A j \in DOMAIN hist.train[m] :
                 /\ hist.train[m][j].epoch = start_epoch + j - 1
                 /\ hist.train[m][j].n =
                      IF m \in Appended(self.cls, self.lamb)
                        THEN TrainBatches ELSE 0
            /\ \A j \in DOMAIN hist.test[m] :
                 /\ hist.test[m][j].epoch = start_epoch + j - 1
                 /\ hist.test[m][j].n =
                      IF m \in Appended(self.cls, self.lamb)
                        THEN TestBatches ELSE 0

C6_Witness ==
  /\ pc = "done"
  /\ resume
  /\ start_epoch = 1
  /\ self.num_epoch = 2
  /\ self.validate_batch
  /\ Len(hist.train["main"]) = 1
  /\ Len(hist.test["main"]) = 1

\* the attribute an optional key sets
AttrOf(key) == IF key = "classification_weight" THEN "cce" ELSE key

\* the keys a constructor reads inside a try block
OptionalKeys(c) ==
  {InitOf(c)[j].key : j \in {n \in DOMAIN InitOf(c) : InitOf(c)[n].clause # "none"}}

\* C7: a constructor called with an optional key absent from the config
\* ends as it would with the key present and well-formed (it completes unless
\* some other key makes it raise), sets every other attribute to the same
\* value, and on completion the key's attribute holds the default: portion
\* 1.0 in classifier_abstract, test_class [] in SSWAE_HSIC_dev2,
\* unlabeled_class [] and unk True in SSWAE_HSIC_dev2_2, and an unweighted
\* CrossEntropyLoss in the classes that read classification_weight.
C7_MissingKeysFallBack ==
  built.state # "new" =>
    \A k \in OptionalKeys(built.cls) \ DOMAIN cfg :
      /\ \A n \in WellFormed(k) :
           LET with == Run(InitOf(built.cls), cfg @@ (k :> ValuesOf(k)[n]),
                           NoAttrs)
           IN /\ with.exc = built.exc
              /\ DOMAIN with.attrs = DOMAIN built.attrs
              /\ \A a \in DOMAIN built.attrs \ {AttrOf(k)} :
                   with.attrs[a] = built.attrs[a]
      /\ built.state = "built" =>
           CASE k = "portion" -> built.attrs["portion"] = [num |-> 1, frac |-> 0]
             [] k = "test_class" -> built.attrs["test_class"] = << >>
             [] k = "unlabeled_class" -> built.attrs["unlabeled_class"] = << >>
             [] k = "unk" -> built.attrs["unk"] = TRUE
             [] k = "classification_weight" -> built.attrs["cce"] = << >>

C7_Witness ==
  /\ built.cls = "SSWAE_HSIC_dev2_2"
  /\ built.state = "built"
  /\ DOMAIN cfg \cap OptionalKeys(built.cls) = {}
  /\ built.attrs["unk"] = TRUE
  /\ built.attrs["test_class"] = << >>
  /\ built.attrs["labeled_class"] = << 0, 1 >>

\* C8: an optimizer_adv.step() changes only parameters of modules of
\* discriminator_trainable, an optimizer_main.step() only parameters of
\* modules of encoder_trainable and decoder_trainable; a module in none of
\* the lists (f1) keeps its parameters through every optimizer step.
C8_OptimizersUpdateOnlyListed ==
  [][ /\ optimizer'.adv = optimizer.adv + 1
        => \A m \in Modules \ discriminator_trainable : params'[m] = params[m]
      /\ optimizer'.main = optimizer.main + 1
        => \A m \in Modules \ (encoder_trainable \cup decoder_trainable) :
             params'[m] = params[m]
      /\ (optimizer'.adv = optimizer.adv + 1
            \/ optimizer'.main = optimizer.main + 1)
        => \A m \in Modules \ (encoder_trainable \cup decoder_trainable
                                 \cup discriminator_trainable) :
             params'[m] = params[m] ]_vars

C8_Witness ==
  /\ self.cls = "SSWAE_HSIC_dev2"
  /\ grads["f1"] # {}
  /\ grads["disc"] # {}
  /\ params["enc"] > 0
  /\ params["disc"] > 0
  /\ params["f1"] = 0

\* C9: at every optimizer_adv.step() the discriminator's gradients come from
\* the current batch's adversarial objective alone, and at every
\* optimizer_main.step() the encoder's and decoder's gradients come from the
\* current batch's main objective alone.
C9_GradientIsolation ==
  self.cls \in TwoOpt =>
    /\ pc = "main"
         => \A m \in discriminator_trainable : grads[m] = {"adv"}
    /\ (pc = "batch" /\ i > 0)
         => \A m \in encoder_trainable \cup decoder_trainable :
              grads[m] = {"main"}

C9_Witness ==
  /\ self.cls \in TwoOpt
  /\ self.lamb > 0
  /\ pc = "main"
  /\ i = 1
  /\ grads["disc"] = {"adv"}
  /\ grads["enc"] = {"old", "adv"}

\* C10: within an epoch the order is training batches, validation, model
\* save, scheduler step(s), checkpoint write (only with a save_state path);
\* no optimizer step lies between the end of the batches and the checkpoint
\* write, so a checkpoint written in the epoch of a model save stores the
\* parameter values of the saved model.
Rank(ev) ==
  CASE ev \in {"adv_step", "main_step"} -> 1
    [] ev = "train_end" -> 2
    [] ev = "validate" -> 3
    [] ev = "save" -> 4
    [] ev = "sched_main" -> 5
    [] ev = "sched_adv" -> 6
    [] ev = "ckpt" -> 7

C10_EndOfEpochOrder ==
  /\ \A j, k \in DOMAIN events :
       j < k => /\ Rank(events[j]) <= Rank(events[k])
                /\ Rank(events[k]) > 1 => Rank(events[j]) < Rank(events[k])
  /\ "validate" \in Range(events) => self.validate_batch
  /\ "save" \in Range(events) => "validate" \in Range(events)
  /\ "ckpt" \in Range(events)
       => /\ self.save_state
          /\ {"train_end", "sched_main"} \subseteq Range(events)
          /\ self.validate_batch => "validate" \in Range(events)
          /\ save_state.status = "complete"
          /\ save_state.epoch = epoch
          /\ "save" \in Range(events)
               => /\ save_path.exists
                  /\ save_path.epoch = save_state.epoch - 1
                  /\ save_path.params = save_state.model_state_dict

C10_Witness ==
  /\ events = << "main_step", "main_step", "train_end", "validate", "save",
                 "sched_main", "ckpt" >>
  /\ save_path.params = save_state.model_state_dict
  /\ save_path.params["enc"] > 0

\* C11: with encoder_pretrain, when train(resume=True) has passed its resume
\* branch (pretrain_encoder() having run first), the parameters and both
\* optimizers' states are those stored in the checkpoint: nothing of the
\* pretraining is left in them.
C11_PretrainDiscardedOnResume ==
  (self.encoder_pretrain /\ resume /\ pc = "epoch" /\ executed = << >>)
    => /\ params = save_state.model_state_dict
       /\ optimizer = save_state.optimizer
       /\ error = "none"

C11_Witness ==
  /\ self.encoder_pretrain
  /\ self.lamb > 0
  /\ resume
  /\ pc = "epoch"
  /\ executed = << >>
  /\ start_epoch = 1
  /\ grads["enc"] = {"pre"}
  /\ grads["disc"] = {"pre"}
  /\ params = save_state.model_state_dict
  /\ params["disc"] = 2 * TrainBatches
  /\ optimizer.adv = TrainBatches

\* errors raised before train() reaches its epoch loop
BeforeLoop ==
  {"FileNotFoundError", "UnpicklingError", "KeyError", "NotImplementedError"}

\* C12 as stated: a train() call that has reached its loop always ends after
\* exactly max(num_epoch - start_epoch, 0) complete epochs; a resume from a
\* checkpoint whose stored epoch is >= num_epoch runs no batch, validation,
\* scheduler step or checkpoint write, leaves the checkpoint file as it was,
\* writes the model file once without validate_batch and not at all with it,
\* and returns a hist of empty lists.
C12_TerminatesAfterAllEpochs ==
  /\ (pc \in {"done", "failed"} /\ error \notin BeforeLoop)
       => /\ pc = "done"
          /\ epoch - start_epoch = Max0(self.num_epoch - start_epoch)
          /\ Len(executed) = Max0(self.num_epoch - start_epoch)
  /\ (resume /\ pc = "done" /\ start_epoch >= self.num_epoch)
       => /\ executed = << >>
          /\ events = << >>
          /\ sched_calls = FreshCounts
          /\ optimizer = save_state.optimizer
          /\ written = written_at_start
          /\ save_state.status = "complete"
          /\ save_state.epoch = start_epoch
          /\ saves = [loop |-> 0,
                      final |-> IF self.validate_batch THEN 0 ELSE 1]
          /\ \A m \in MetricsOf(self.cls) :
               hist.train[m] = << >> /\ hist.test[m] = << >>

\* C13 as stated: classifier_abstract.train runs all its epochs and saves a
\* model for every combination of validate_batch and save_best; no name is
\* read before it is assigned.
C13_ClassifierSavesInEveryMode ==
  self.cls = "classifier_abstract"
    => /\ error # "NameError"
       /\ (pc = "failed" /\ error \notin BeforeLoop) => FALSE
       /\ (pc = "done" /\ self.num_epoch > start_epoch) => save_path.exists

\* C14: in validation the MMD penalty is always computed with n >= 2, so
\* neither of its divisors n * (n - 1), n * n is zero
C14_ValidationMMDAtLeastTwo ==
  (batch.kind = "validation" /\ result.kind = "validation")
    => \A j \in DOMAIN result.test_loss_penalty :
         /\ result.test_loss_penalty[j].n >= 2
         /\ result.test_loss_penalty[j].den1 # 0
         /\ result.test_loss_penalty[j].den2 # 0

\* C15: penalty_loss_mask returns a well-defined MMD for every mask: zero
\* when no sample is labeled, otherwise over the labeled samples with both
\* divisors nonzero; its GAN and HSIC terms are over the whole batch
C15_MaskMMDWellDefined ==
  (batch.kind = "mask" /\ result.kind = "mask")
    => LET labeled == {j \in DOMAIN batch.valid_y : batch.valid_y[j]}
       IN /\ labeled = {} => result.mmd.value = "zero"
          /\ labeled # {} =>
               /\ result.mmd.n = Cardinality(labeled)
               /\ result.mmd.den1 # 0
               /\ result.mmd.den2 # 0
               /\ result.mmd.value = "finite"
          /\ result.gan = Len(batch.valid_y)
          /\ result.hsic = Len(batch.valid_y)

\* C16: in the two-loader classes the recorded training metrics mix the
\* labeled and the unlabeled loss with the weights of the objective:
\* n1/(n1+n2) for the labeled one, n2/(n1+n2) for the unlabeled one
C16_MetricsUseObjectiveWeights ==
  (batch.kind = "mix" /\ result.kind = "mix")
    => /\ result.train_loss_main =
            [num |-> batch.loss1 * batch.n1 + batch.los1 * batch.n2,
             den |-> batch.n1 + batch.n2]
       /\ result.train_loss_main2 =
            [num |-> batch.loss2 * batch.n1 + batch.los2 * batch.n2,
             den |-> batch.n1 + batch.n2]
       /\ result.obj.num = result.train_loss_main.num
                             + batch.lamb2 * result.train_loss_main2.num

\* C17: the main objective of SSWAE_adv_abstract is the sum
\* loss1 + lamb_class * loss2 - lamb_adv * class_adv, plus lamb * penalty
\* when lamb > 0
C17_AdvObjectiveAdditive ==
  (batch.kind = "adv" /\ result.kind = "adv")
    => result.obj = batch.loss1 + batch.lamb_class * batch.loss2
                      - batch.lamb_adv * batch.class_adv
                      + (IF batch.lamb > 0
                         THEN batch.lamb * batch.penalty
                         ELSE 0)

\* the optional keys of the config whose present value cannot be converted
Malformed(c) ==
  {k \in OptionalKeys(c) \cap DOMAIN cfg :
     \E n \in DOMAIN ValuesOf(k) \ WellFormed(k) : cfg[k] = ValuesOf(k)[n]}

\* C18: a constructor called with an optional key present and malformed
\* raises: the fallback value is used for a missing key only, in every class
C18_MalformedOptionalRaises ==
  (built.state # "new" /\ Malformed(built.cls) # {})
    => /\ built.state = "raised"
       /\ built.exc # "none"

Least(S) == CHOOSE x \in S : \A y \in S : x <= y

\* C19: with save_best and validate_batch the model file is written in an
\* epoch only if the epoch's objective is strictly below best_obj[1];
\* best_obj[1] never increases and is the minimum of its value when train()
\* began and the objectives seen so far; best_obj[0] is the 1-based index of
\* the earliest epoch that attained this minimum; the objective is made of
\* the main average and the first penalty average only
C19_BestTracksMinimum ==
  (self.save_best /\ self.validate_batch)
    => LET seen == selection.seen
           start == selection.start
           least == Least({start[2]} \cup {seen[j].obj : j \in DOMAIN seen})
           attained == {j \in DOMAIN seen : seen[j].obj = least}
       IN /\ \A j \in DOMAIN seen :
               /\ seen[j].saved => seen[j].obj < seen[j].before
               /\ seen[j].terms = {"main", "penalty"}
               /\ seen[j].before <=
                    (IF j = 1 THEN start[2] ELSE seen[j - 1].before)
          /\ saves.loop = Cardinality({j \in DOMAIN seen : seen[j].saved})
          /\ seen # << >> => best_obj[2] <= seen[Len(seen)].before
          /\ best_obj[2] = least
          /\ best_obj[1] = IF least < start[2]
                           THEN seen[Least(attained)].epoch
                           ELSE start[1]

C19_Witness ==
  /\ self.save_best
  /\ self.validate_batch
  /\ pc = "done"
  /\ Len(selection.seen) = 2
  /\ selection.seen[1].obj = selection.seen[2].obj
  /\ selection.seen[1].saved
  /\ ~ selection.seen[2].saved
  /\ best_obj = << 1, selection.seen[1].obj >>
  /\ saves = [loop |-> 1, final |-> 0]
  /\ save_path.epoch = 0

\* C20: train() writes the model file exactly once, after the last epoch
\* and never inside the loop, when validate_batch is false; once in every
\* executed epoch and not after the loop when validate_batch is true and
\* save_best is false; at most once in every executed epoch and not after
\* the loop when both are true; with validate_batch true and no executed
\* epoch it writes no model file
C20_SavePolicy ==
  LET entered == Len(executed)
      finished == IF pc \in {"epoch", "done"} THEN entered ELSE entered - 1
  IN pc \in {"epoch", "batch", "main", "validate", "save", "sched", "ckpt",
             "ckpt_write", "done"}
       => /\ ~ self.validate_batch =>
               /\ saves.loop = 0
               /\ saves.final = IF pc = "done" THEN 1 ELSE 0
          /\ (self.validate_batch /\ ~ self.save_best) =>
               /\ saves.loop \in {finished, entered}
               /\ pc \in {"sched", "ckpt", "ckpt_write"}
                    => saves.loop = entered
               /\ pc = "done" => saves.loop = entered
               /\ saves.final = 0
          /\ (self.validate_batch /\ self.save_best) =>
               /\ saves.loop <= entered
               /\ saves.final = 0
          /\ (self.validate_batch /\ pc = "done" /\ entered = 0) =>
               /\ saves = NoSaves
               /\ "save" \notin Range(events)

C20_Witness ==
  /\ pc = "done"
  /\ self.validate_batch
  /\ ~ self.save_best
  /\ Len(executed) = MaxEpoch
  /\ saves = [loop |-> MaxEpoch, final |-> 0]
  /\ save_path.exists
  /\ save_path.epoch = MaxEpoch - 1

\* C21: in the two-loader classes every epoch iterates both loaders afresh
\* and draws min(len(train_generator1), len(train_generator2)) batches from
\* each, so next() never meets an exhausted iterator, and every batch drawn
\* has batch_size1 (batch_size2) samples, the n1 (n2) the losses use
C21_LoadersNeverExhausted ==
  (batch.kind = "loaders" /\ result.kind = "loaders")
    => /\ result.error = "none"
       /\ result.tr1 = result.i
       /\ result.tr2 = result.i
       /\ Len(result.drawn) = result.i
       /\ result.i <= Len(train_generator1)
       /\ result.i <= Len(train_generator2)
       /\ \/ iter_per_epoch = batch.size1 \div batch.batch_size1
          \/ iter_per_epoch = batch.size2 \div batch.batch_size2
       /\ iter_per_epoch <= batch.size1 \div batch.batch_size1
       /\ iter_per_epoch <= batch.size2 \div batch.batch_size2
       /\ \A j \in DOMAIN result.drawn :
            /\ result.drawn[j].len1 = result.drawn[j].n1
            /\ result.drawn[j].len2 = result.drawn[j].n2

C21_Witness ==
  /\ batch.kind = "loaders"
  /\ result.kind = "loaders"
  /\ result.epoch = 1
  /\ result.i = 2
  /\ iter_per_epoch = 2
  /\ Len(train_generator1) # Len(train_generator2)
  /\ batch.size1 % batch.batch_size1 # 0
  /\ batch.batch_size1 # batch.batch_size2
  /\ result.error = "none"

\* C22: pretrain_encoder() keeps every module of pretrain_freeze with
\* requires_grad False during all its epochs and returns with requires_grad
\* True for them whatever the flag was before the call; the flag of every
\* other module is never changed
C22_FreezeAndRestore ==
  (batch.kind = "freeze" /\ result.kind = "freeze")
    => /\ result.pc = "loop" =>
            \A m \in batch.pretrain_freeze : ~ result.requires_grad[m]
       /\ result.pc = "returned" =>
            /\ result.epoch = batch.encoder_pretrain_step
            /\ \A m \in batch.pretrain_freeze : result.requires_grad[m]
       /\ \A m \in Modules \ batch.pretrain_freeze :
            result.requires_grad[m] = batch.requires_grad[m]

C22_Witness ==
  /\ batch.kind = "freeze"
  /\ result.kind = "freeze"
  /\ result.pc = "returned"
  /\ result.epoch = MaxEpoch
  /\ batch.pretrain_freeze = {"embed_data", "enc"}
  /\ ~ batch.requires_grad["embed_data"]
  /\ batch.requires_grad["enc"]
  /\ ~ batch.requires_grad["dec"]
  /\ result.requires_grad["embed_data"]
  /\ result.requires_grad["enc"]
  /\ ~ result.requires_grad["dec"]

\* C23: train() creates the TensorBoard writer if and only if
\* tensorboard_dir is not empty; every call on self.writer is made on a writer
\* this call created and has not closed; a train() that completes closes it
\* exactly once, after the last epoch; with an empty tensorboard_dir
\* self.writer is never read
C23_WriterLifecycle ==
  /\ ~ writer.misused
  /\ self.tensorboard_dir = "" => writer = NoWriter
  /\ (pc \in {"epoch", "batch", "main", "validate", "save", "sched", "ckpt",
              "ckpt_write"} \/ (pc = "failed" /\ error \notin BeforeLoop))
       => /\ writer.state = (IF self.tensorboard_dir = "" THEN "none"
                                                          ELSE "open")
          /\ writer.closes = 0
  /\ (pc = "failed" /\ resume /\ error \in BeforeLoop \ {"NotImplementedError"})
       => writer.state # "none" <=> self.tensorboard_dir # ""
  /\ pc = "done"
       => /\ writer.state = (IF self.tensorboard_dir = "" THEN "none"
                                                          ELSE "closed")
          /\ writer.closes = (IF self.tensorboard_dir = "" THEN 0 ELSE 1)
  /\ writer.state = "closed" => pc = "done" /\ epoch >= self.num_epoch

C23_Witness ==
  /\ pc = "done"
  /\ self.tensorboard_dir # ""
  /\ self.validate_batch
  /\ self.cls = "SSWAE_HSIC_dev"
  /\ Len(executed) = MaxEpoch
  /\ writer = [state |-> "closed", reads |-> MaxEpoch + MaxEpoch + 1,
               closes |-> 1, misused |-> FALSE]

Distinct(known, unknown) ==
  LET all == known \o unknown
  IN \A a, b \in DOMAIN all : a # b => all[a] # all[b]

\* C25: rmMNIST with aux = [known, unknown], the lists disjoint and without
\* repeats, gives every retained sample whose original digit is known[j]
\* the label j, for every order of known, and every retained sample whose
\* original digit is in unknown the label len(known)
C25_RecodeByOriginalDigit ==
  (batch.kind = "rmMNIST" /\ result.kind = "dataset" /\ batch.given
     /\ Distinct(batch.known, batch.unknown))
    => \A r \in DOMAIN result.rows :
         LET digit == batch.data[result.rows[r].src]
         IN /\ \A j \in DOMAIN batch.known :
                 digit = batch.known[j] => result.rows[r].label = j - 1
            /\ (\E j \in DOMAIN batch.unknown : digit = batch.unknown[j])
                 => result.rows[r].label = Len(batch.known)

C25_Witness ==
  /\ batch.kind = "rmMNIST"
  /\ result.kind = "dataset"
  /\ batch.given
  /\ batch.known = << 1, 0 >>
  /\ batch.unknown = << 2 >>
  /\ batch.data = << 0, 1, 2 >>
  /\ batch.portion = [num |-> PortionDen, den |-> PortionDen]
  /\ result.rows = << [src |-> 2, label |-> 0], [src |-> 1, label |-> 1],
                      [src |-> 3, label |-> 2] >>

\* C26: after rmMNIST is constructed with any aux = [known, unknown] every
\* stored label is in [0, W), W = len(known) + (1 if unknown is not empty)
\* being the number of rows of the code table, so __getitem__ never leaves
\* the table; with aux = None the table has 10 rows and the labels are the
\* digits of the file, whatever portion is
C26_LabelsWithinCodeTable ==
  (batch.kind = "rmMNIST" /\ result.kind = "dataset")
    => /\ batch.given =>
            LET W == Len(batch.known)
                       + (IF batch.unknown = << >> THEN 0 ELSE 1)
            IN /\ Len(result.code) = W
               /\ \A r \in DOMAIN result.rows :
                    result.rows[r].label \in 0 .. (W - 1)
       /\ ~ batch.given =>
            /\ Len(result.code) = 10
            /\ result.rows = [r \in 1 .. Len(batch.data) |->
                                [src |-> r, label |-> batch.data[r]]]
       /\ result.item.error = "none"

C26_Witness ==
  /\ batch.kind = "rmMNIST"
  /\ result.kind = "dataset"
  /\ batch.given
  /\ batch.known = << 2, 0 >>
  /\ batch.unknown = << 0, 1 >>
  /\ Len(result.code) = 3
  /\ Len(result.rows) = 3
  /\ result.item.idx = 3
  /\ result.rows[3].label = 2
  /\ result.item.y = << 0, 0, 1 >>

RECURSIVE FirstOfEach(_, _, _)
FirstOfEach(data, classes, portion) ==
  IF classes = << >> THEN << >>
  ELSE LET ind == SelectSeq([r \in 1 .. Len(data) |-> r],
                            LAMBDA r : data[r] = Head(classes))
           k == (Len(ind) * portion.num) \div portion.den
       IN SubSeq(ind, 1, IF k < Len(ind) THEN k ELSE Len(ind))
            \o FirstOfEach(data, Tail(classes), portion)

\* C27: rmMNIST with aux = [known, unknown] and portion p consists of the
\* first floor(count_d * p) samples of each listed digit d, in the order of
\* known followed by unknown, and no sample of the file appears twice, also
\* when a digit is listed twice or in both lists
C27_SelectionWithoutDuplicates ==
  (batch.kind = "rmMNIST" /\ result.kind = "dataset" /\ batch.given)
    => /\ [j \in DOMAIN result.rows |-> result.rows[j].src] =
            FirstOfEach(batch.data, batch.known \o batch.unknown,
                        batch.portion)
       /\ \A a, b \in DOMAIN result.rows :
            a # b => result.rows[a].src # result.rows[b].src

====
